---- MODULE Spec2Model ----
(***************************************************************************)
(* A model of the Brainfuck interpreter of src/index.js: the function      *)
(* brainfuck (text output) and brainfuck.bytes (byte output, output cap,   *)
(* onOutput observer).  One call is one behaviour: the bracket pre-pass    *)
(* (one action per scanned character), then the fetch-decode-execute loop  *)
(* (one action per loop iteration), then the return.                       *)
(*                                                                         *)
(* Positions (ip, i, bracketMap keys) are 0-based as in the source; the    *)
(* character at position p of a string s is s[p + 1] here.  A string is a  *)
(* sequence of UTF-16 code units: the program as one-character strings,    *)
(* the input and the text output as code-unit numbers.  The tape, a        *)
(* zero-filled Uint8Array(30000), is kept as the function of its non-zero  *)
(* cells.  The observer is the recording callback of the README: it notes  *)
(* the byte it is given and returns.                                       *)
(***************************************************************************)
EXTENDS Integers, Sequences, FiniteSets, TLC

VARIABLES
    mode,        \* "text": brainfuck is called; "bytes": brainfuck.bytes
    code,        \* the program
    input,       \* the input string
    maxSteps,    \* opts.maxSteps ?? 1000000
    maxOutput,   \* opts.maxOutput ?? 1000000 (brainfuck.bytes)
    onOutput,    \* whether opts.onOutput is given (brainfuck.bytes)
    tape,        \* the cells
    dp,          \* data pointer
    ip,          \* instruction pointer
    inputPos,    \* position in the input string
    output,      \* the output so far: a string (text) or an array (bytes)
    steps,       \* step counter
    bracketMap,  \* matching bracket positions
    stack,       \* pending "[" positions of the pre-pass
    i,           \* index of the pre-pass loop
    pc,          \* "scan" (pre-pass), "run" (while loop), "returned", "thrown"
    error,       \* the Error thrown, NoError before
    result,      \* the value returned, <<>> before
    observed     \* the bytes onOutput has been called with, in order

vars == <<mode, code, input, maxSteps, maxOutput, onOutput,
          tape, dp, ip, inputPos, output, steps,
          bracketMap, stack, i,
          pc, error, result, observed>>

args == <<mode, code, input, maxSteps, maxOutput, onOutput>>

----------------------------------------------------------------------------
(* Program constants *)

TapeLen == 30000

CellMod == 256

CharMod == 65536

DefaultMaxSteps == 1000000

DefaultMaxOutput == 1000000

(* Bounds of the model *)

MaxCodeLen == 2

MaxInputLen == 2

MaxStepsCap == 5

MaxOutputCap == 2

MaxCatLen == 3

MaxFactor == 17

----------------------------------------------------------------------------
(* Values *)

\* The eight instructions and one inert character.
Alphabet == {">", "<", "+", "-", ".", ",", "[", "]", "x"}

\* Input code units: NUL, "A", and U+0141 whose low byte is that of "A".
Chars == {0, 65, 321}

SeqsUpTo(S, n) == UNION {[1..k -> S] : k \in 0..n}

\* An absent option is <<>>, a given one <<v>>.
Absent == <<>>

\* opts.x ?? d
Nullish(o, d) == IF o = Absent THEN d ELSE o[1]

\* undefined + 1: the value ip takes after a jump through a missing map key.
NaN == 0 - 1

NoError == [kind |-> "none", arg |-> 0]

UnmatchedClose(p) == [kind |-> "UnmatchedClose", arg |-> p]

UnmatchedOpen(p) == [kind |-> "UnmatchedOpen", arg |-> p]

StepLimit(n) == [kind |-> "StepLimit", arg |-> n]

OutputLimit(n) == [kind |-> "OutputLimit", arg |-> n]

----------------------------------------------------------------------------
(* The tape: new Uint8Array(30000) *)

EmptyTape == [p \in {} |-> 0]

Cell(t, p) == IF p \in DOMAIN t THEN t[p] ELSE 0

\* tape[p] = v: a Uint8Array store keeps v modulo 2^8.
Store(t, p, v) ==
    LET b == v % CellMod
    IN  IF b = 0
        THEN [q \in (DOMAIN t) \ {p} |-> t[q]]
        ELSE [q \in (DOMAIN t) \cup {p} |-> IF q = p THEN b ELSE t[q]]

\* A remainder by 255 where the mask 0xff is meant.
And8_Mod255(x) == x % (CellMod - 1)

\* x & 0xff for x >= 0
And8(x) == x % CellMod

\* A 7-bit character in place of the code unit.
FromCharCode_Latin7(v) == v % 128

\* String.fromCharCode(v): one UTF-16 code unit
FromCharCode(v) == v % CharMod

\* bracketMap.get(k)
MapGet(m, k) == IF k \in DOMAIN m THEN m[k] ELSE NaN

\* bracketMap.set(k, v)
MapSet(m, k, v) == [q \in (DOMAIN m) \cup {k} |-> IF q = k THEN v ELSE m[q]]

\* ip++
Incr(p) == IF p = NaN THEN NaN ELSE p + 1

\* ip < code.length
LoopCond(p, c) == p # NaN /\ p < Len(c)

----------------------------------------------------------------------------
(* The bracket pre-pass *)

\* The output-limit error caught and the loop resumed.
After_Resumes(e, here) == IF e = NoError \/ e.kind = "OutputLimit" THEN here ELSE "thrown"

\* Where control is after a statement that left error e: a throw ends the call.
After(e, here) == IF e = NoError THEN here ELSE "thrown"

\* The pre-pass state: scan index, pending "[" positions, map built so far.
Scan(ii, st, bm, e) == [i |-> ii, stack |-> st, bracketMap |-> bm, error |-> e]

ScanChar_SkipsStray(c, k, st, bm) ==
    IF c[k + 1] = "["
    THEN Scan(k + 1, Append(st, k), bm, NoError)
    ELSE IF c[k + 1] = "]" /\ Len(st) > 0
    THEN Scan(k + 1, SubSeq(st, 1, Len(st) - 1),
              MapSet(MapSet(bm, st[Len(st)], k), k, st[Len(st)]), NoError)
    ELSE Scan(k + 1, st, bm, NoError)

\* stack.shift() in place of stack.pop(): the oldest pending "[" is paired.
ScanChar_Fifo(c, k, st, bm) ==
    IF c[k + 1] = "["
    THEN Scan(k + 1, Append(st, k), bm, NoError)
    ELSE IF c[k + 1] = "]"
    THEN IF Len(st) = 0
         THEN Scan(k, st, bm, UnmatchedClose(k))
         ELSE Scan(k + 1, Tail(st), MapSet(MapSet(bm, st[1], k), k, st[1]), NoError)
    ELSE Scan(k + 1, st, bm, NoError)

\* One turn of the for loop over the program: the character at position k.
ScanChar(c, k, st, bm) ==
    IF c[k + 1] = "["
    THEN Scan(k + 1, Append(st, k), bm, NoError)
    ELSE IF c[k + 1] = "]"
    THEN IF Len(st) = 0
         THEN Scan(k, st, bm, UnmatchedClose(k))
         ELSE LET open == st[Len(st)]
              IN  Scan(k + 1, SubSeq(st, 1, Len(st) - 1),
                       MapSet(MapSet(bm, open, k), k, open), NoError)
    ELSE Scan(k + 1, st, bm, NoError)

ScanDone_Silent(st) == NoError

ScanDone_Outermost(st) == IF Len(st) > 0 THEN UnmatchedOpen(st[1]) ELSE NoError

\* After the loop: a pending "[" is an error, reported at the top of the stack.
ScanDone(st) == IF Len(st) > 0 THEN UnmatchedOpen(st[Len(st)]) ELSE NoError

----------------------------------------------------------------------------
(* The execution engine *)

\* The part of the state an instruction can change.
Machine == [tape |-> tape, dp |-> dp, ip |-> ip, inputPos |-> inputPos,
            output |-> output, observed |-> observed, error |-> error]

Comma_AdvancesAtEof(in, s) ==
    IF s.inputPos < Len(in)
    THEN [s EXCEPT !.tape = Store(s.tape, s.dp, in[s.inputPos + 1]),
                   !.inputPos = s.inputPos + 1]
    ELSE [s EXCEPT !.tape = Store(s.tape, s.dp, 0), !.inputPos = s.inputPos + 1]

\* charCodeAt(++inputPos): NaN past the end, stored as 0
Comma_PreIncrement(in, s) ==
    IF s.inputPos < Len(in)
    THEN [s EXCEPT !.tape = Store(s.tape, s.dp, IF s.inputPos + 1 < Len(in)
                                                 THEN in[s.inputPos + 2] ELSE 0),
                   !.inputPos = s.inputPos + 1]
    ELSE [s EXCEPT !.tape = Store(s.tape, s.dp, 0)]

\* tape[dp] = inputPos < input.length ? input.charCodeAt(inputPos++) : 0
Comma(in, s) ==
    IF s.inputPos < Len(in)
    THEN [s EXCEPT !.tape = Store(s.tape, s.dp, in[s.inputPos + 1]),
                   !.inputPos = s.inputPos + 1]
    ELSE [s EXCEPT !.tape = Store(s.tape, s.dp, 0)]

\* The switch with one slip v: "<" without the + tape.length, a default case
\* that increments, a jump that lands one before the partner bracket, a "]"
\* that tests for zero.
ExecVariant(c, in, bm, s, v) ==
    LET cmd == c[s.ip + 1]
        cur == Cell(s.tape, s.dp)
        back == IF v = "BackOntoOpen" THEN 1 ELSE 0
        forth == IF v = "ForwardOntoClose" THEN 1 ELSE 0
    IN  CASE cmd = ">" -> [s EXCEPT !.dp = (s.dp + 1) % TapeLen]
          [] cmd = "<" -> [s EXCEPT !.dp = IF v = "NoWrapLeft" THEN s.dp - 1
                                           ELSE (s.dp - 1 + TapeLen) % TapeLen]
          [] cmd = "+" -> [s EXCEPT !.tape = Store(s.tape, s.dp, And8(cur + 1))]
          [] cmd = "-" -> [s EXCEPT !.tape = Store(s.tape, s.dp, And8(cur - 1 + CellMod))]
          [] cmd = "," -> IF s.inputPos < Len(in)
                          THEN [s EXCEPT !.tape = Store(s.tape, s.dp, in[s.inputPos + 1]),
                                         !.inputPos = s.inputPos + 1]
                          ELSE [s EXCEPT !.tape = Store(s.tape, s.dp, 0)]
          [] cmd = "[" -> IF cur = 0 THEN [s EXCEPT !.ip = MapGet(bm, s.ip) - forth] ELSE s
          [] cmd = "]" -> IF (IF v = "CloseTestsZero" THEN cur = 0 ELSE cur # 0)
                          THEN [s EXCEPT !.ip = MapGet(bm, s.ip) - back] ELSE s
          [] OTHER -> IF v = "InertIncrements"
                      THEN [s EXCEPT !.tape = Store(s.tape, s.dp, And8(cur + 1))]
                      ELSE s

ExecCommon_NoWrapLeft(c, in, bm, s) == ExecVariant(c, in, bm, s, "NoWrapLeft")

ExecCommon_InertIncrements(c, in, bm, s) == ExecVariant(c, in, bm, s, "InertIncrements")

ExecCommon_ForwardOntoClose(c, in, bm, s) == ExecVariant(c, in, bm, s, "ForwardOntoClose")

ExecCommon_BackOntoOpen(c, in, bm, s) == ExecVariant(c, in, bm, s, "BackOntoOpen")

ExecCommon_CloseTestsZero(c, in, bm, s) == ExecVariant(c, in, bm, s, "CloseTestsZero")

\* The cases shared, character for character, by the two switch statements.
ExecCommon(c, in, bm, s) ==
    LET cmd == c[s.ip + 1]
        cur == Cell(s.tape, s.dp)
    IN  CASE cmd = ">" -> [s EXCEPT !.dp = (s.dp + 1) % TapeLen]
          [] cmd = "<" -> [s EXCEPT !.dp = (s.dp - 1 + TapeLen) % TapeLen]
          [] cmd = "+" -> [s EXCEPT !.tape = Store(s.tape, s.dp, And8(cur + 1))]
          [] cmd = "-" -> [s EXCEPT !.tape = Store(s.tape, s.dp, And8(cur - 1 + CellMod))]
          [] cmd = "," -> Comma(in, s)
          [] cmd = "[" -> IF cur = 0 THEN [s EXCEPT !.ip = MapGet(bm, s.ip)] ELSE s
          [] cmd = "]" -> IF cur # 0 THEN [s EXCEPT !.ip = MapGet(bm, s.ip)] ELSE s
          [] OTHER -> s

\* brainfuck: the switch and the ip++ after it.
ExecText(c, in, bm, s) ==
    LET t == IF c[s.ip + 1] = "."
             THEN [s EXCEPT !.output =
                       Append(s.output, FromCharCode(Cell(s.tape, s.dp)))]
             ELSE ExecCommon(c, in, bm, s)
    IN  [t EXCEPT !.ip = Incr(t.ip)]

ExecBytes_PastCap(c, in, bm, maxOut, obs, s) ==
    IF c[s.ip + 1] = "."
    THEN IF Len(s.output) > maxOut
         THEN [s EXCEPT !.error = OutputLimit(maxOut)]
         ELSE [s EXCEPT !.output = Append(s.output, Cell(s.tape, s.dp)),
                        !.observed = IF obs THEN Append(s.observed, Cell(s.tape, s.dp))
                                     ELSE s.observed,
                        !.ip = Incr(s.ip)]
    ELSE [ExecCommon(c, in, bm, s) EXCEPT !.ip = Incr(ExecCommon(c, in, bm, s).ip)]

\* The observer called before the limit check.
ExecBytes_ObserveFirst(c, in, bm, maxOut, obs, s) ==
    IF c[s.ip + 1] = "."
    THEN IF Len(s.output) >= maxOut
         THEN [s EXCEPT !.error = OutputLimit(maxOut),
                        !.observed = IF obs THEN Append(s.observed, Cell(s.tape, s.dp))
                                     ELSE s.observed]
         ELSE [s EXCEPT !.output = Append(s.output, Cell(s.tape, s.dp)),
                        !.observed = IF obs THEN Append(s.observed, Cell(s.tape, s.dp))
                                     ELSE s.observed,
                        !.ip = Incr(s.ip)]
    ELSE [ExecCommon(c, in, bm, s) EXCEPT !.ip = Incr(ExecCommon(c, in, bm, s).ip)]

\* brainfuck.bytes: the switch and the ip++ after it; a throw skips the ip++.
ExecBytes(c, in, bm, maxOut, obs, s) ==
    IF c[s.ip + 1] = "."
    THEN IF Len(s.output) >= maxOut
         THEN [s EXCEPT !.error = OutputLimit(maxOut)]
         ELSE [s EXCEPT !.output = Append(s.output, Cell(s.tape, s.dp)),
                        !.observed = IF obs THEN Append(s.observed, Cell(s.tape, s.dp))
                                     ELSE s.observed,
                        !.ip = Incr(s.ip)]
    ELSE LET t == ExecCommon(c, in, bm, s)
         IN  [t EXCEPT !.ip = Incr(t.ip)]

Exec(md, c, in, bm, maxOut, obs, s) ==
    IF md = "text" THEN ExecText(c, in, bm, s) ELSE ExecBytes(c, in, bm, maxOut, obs, s)

StepCheck_AtLimit(n, limit) == n + 1 >= limit

StepCheck_Late(n, limit) == n > limit

\* ++steps > maxSteps
StepCheck(n, limit) == n + 1 > limit

\* The instruction executed first, the step counter checked after it.
LoopTurn_CheckAfter(md, c, in, bm, limit, maxOut, obs, s, n) ==
    LET r == Exec(md, c, in, bm, maxOut, obs, s)
    IN  IF r.error = NoError /\ StepCheck(n, limit)
        THEN [r EXCEPT !.error = StepLimit(limit)]
        ELSE r

\* One turn of the while loop from machine state s with step counter n.
LoopTurn(md, c, in, bm, limit, maxOut, obs, s, n) ==
    IF StepCheck(n, limit)
    THEN [s EXCEPT !.error = StepLimit(limit)]
    ELSE Exec(md, c, in, bm, maxOut, obs, s)

\* return output / return new Uint8Array(output)
ReturnValue(md, out) ==
    IF md = "text" THEN out ELSE [k \in 1..Len(out) |-> out[k] % CellMod]

----------------------------------------------------------------------------
(* The calls the model makes *)

\* Programs that loop, nest, fail the pre-pass late, or echo their input.
NamedPrograms ==
    { <<"+", "[", "]">>, <<"+", "[", "+", "]">>, <<"+", "[", "-", "]">>,
      <<"[", "[", "]">>, <<"[", "]", "]">>, <<".", ".", "[">>, <<".", ".", "]">>,
      <<"[", "[", "]", "]">>, <<"[", "]", "[", "]">>, <<"[", "[", "[", "]">>,
      <<".", "+", "[", "]">>, <<".", ".", ".">>, <<"+", "[", ".", "]">>,
      <<",", ".", ",", ".">>, <<",", "[", ".", ",", "]">>,
      <<"-", "[", ".", "+", "]">>, <<"<", "+", ".", ">", ".">>,
      <<"<", "<", ">", ">">>, <<">", "<", "<", ">">>, <<">", ">", "<", ">">> }

Programs == SeqsUpTo(Alphabet, MaxCodeLen) \cup NamedPrograms

Inputs == SeqsUpTo(Chars, MaxInputLen)

Has(c, ch) == \E k \in 1..Len(c) : c[k] = ch

\* A program without "]" never jumps back: it ends within Len(c) turns.
LoopFree(c) == ~Has(c, "]")

\* The input matters to a program with a ","; the others are run on the default ''.
InputsFor(c) == IF Has(c, ",") THEN Inputs ELSE {<<>>}

\* opts.maxSteps: a small limit, or absent where the default cannot be reached.
StepOpts(c) == {<<n>> : n \in 0..MaxStepsCap} \cup (IF LoopFree(c) THEN {Absent} ELSE {})

\* opts.maxOutput: read only at a "."; the other programs are run on the default.
OutputOpts(c) ==
    IF Has(c, ".") THEN {<<n>> : n \in 0..MaxOutputCap} \cup {Absent} ELSE {Absent}

\* opts.onOutput given or not: called only at a ".".
ObserverOpts(c) == IF Has(c, ".") THEN BOOLEAN ELSE {FALSE}

\* let dp = 0 ... let steps = 0; new Map(); []: the state after the declarations.
Fresh ==
    /\ tape = EmptyTape
    /\ dp = 0
    /\ ip = 0
    /\ inputPos = 0
    /\ output = <<>>
    /\ steps = 0
    /\ bracketMap = EmptyTape
    /\ stack = <<>>
    /\ i = 0
    /\ pc = "scan"
    /\ error = NoError
    /\ result = <<>>
    /\ observed = <<>>

Init ==
    /\ mode \in {"text", "bytes"}
    /\ code \in Programs
    /\ input \in InputsFor(code)
    /\ \E o \in StepOpts(code) : maxSteps = Nullish(o, DefaultMaxSteps)
    /\ IF mode = "text"
       THEN maxOutput = DefaultMaxOutput /\ onOutput = FALSE
       ELSE /\ \E o \in OutputOpts(code) : maxOutput = Nullish(o, DefaultMaxOutput)
            /\ onOutput \in ObserverOpts(code)
    /\ Fresh

\* The echo and cat programs of the README's tests.
EchoProgram == <<",", ".">>

CatProgram == <<",", "[", ".", ",", "]">>

\* Code units below, at and above the width of a cell.
CatChars == {0, 65, 255, 256, 321}

\* Echo and cat on every input up to MaxCatLen, under the default limits.
CatInit ==
    /\ mode \in {"text", "bytes"}
    /\ code \in {EchoProgram, CatProgram}
    /\ input \in SeqsUpTo(CatChars, MaxCatLen)
    /\ maxSteps = Nullish(Absent, DefaultMaxSteps)
    /\ maxOutput = Nullish(Absent, DefaultMaxOutput)
    /\ onOutput \in (IF mode = "text" THEN {FALSE} ELSE BOOLEAN)
    /\ Fresh

\* A "," and then as many ch as a cell has values: "," "+" ... "+" (256 times).
WrapProgram(ch) == [k \in 1..(CellMod + 1) |-> IF k = 1 THEN "," ELSE ch]

\* The wrap programs on every starting value of the cell, under the default limits.
WrapInit ==
    /\ mode \in {"text", "bytes"}
    /\ code \in {WrapProgram("+"), WrapProgram("-")}
    /\ input \in {<<v>> : v \in 0..(CellMod - 1)} \cup {<<>>}
    /\ maxSteps = Nullish(Absent, DefaultMaxSteps)
    /\ maxOutput = Nullish(Absent, DefaultMaxOutput)
    /\ onOutput = FALSE
    /\ Fresh

Repeat(ch, n) == [k \in 1..n |-> ch]

\* n "+", then "[->", m "+", "<]>.": the README's loop test has n = 2, m = 5.
MulProgram(n, m) ==
    Repeat("+", n) \o <<"[", "-", ">">> \o Repeat("+", m) \o <<"<", "]", ">", ".">>

\* The multiplication programs for the factors up to MaxFactor, default limits.
MulInit ==
    /\ mode \in {"text", "bytes"}
    /\ \E n \in 0..MaxFactor : \E m \in 0..MaxFactor : code = MulProgram(n, m)
    /\ input = <<>>
    /\ maxSteps = Nullish(Absent, DefaultMaxSteps)
    /\ maxOutput = Nullish(Absent, DefaultMaxOutput)
    /\ onOutput = FALSE
    /\ Fresh

\* The Hello-World program of the README, as its test writes it: two pieces.
HelloLoops ==
    << "+", "+", "+", "+", "+", "+", "+", "+", "[", ">", "+", "+",
       "+", "+", "[", ">", "+", "+", ">", "+", "+", "+", ">", "+",
       "+", "+", ">", "+", "<", "<", "<", "<", "-", "]", ">", "+",
       ">", "+", ">", "-", ">", ">", "+", "[", "<", "]", "<", "-",
       "]" >>

HelloPrints ==
    << ">", ">", ".", ">", "-", "-", "-", ".", "+", "+", "+", "+",
       "+", "+", "+", ".", ".", "+", "+", "+", ".", ">", ">", ".",
       "<", "-", ".", "<", ".", "+", "+", "+", ".", "-", "-", "-",
       "-", "-", "-", ".", "-", "-", "-", "-", "-", "-", "-", "-",
       ".", ">", ">", "+", ".", ">", "+", "+", "." >>

HelloWorld == HelloLoops \o HelloPrints

\* "Hello World!\n" as code units.
HelloOutput == <<72, 101, 108, 108, 111, 32, 87, 111, 114, 108, 100, 33, 10>>

\* The Hello-World program with the default input and limits.
HelloInit ==
    /\ mode \in {"text", "bytes"}
    /\ code = HelloWorld
    /\ input = <<>>
    /\ maxSteps = Nullish(Absent, DefaultMaxSteps)
    /\ maxOutput = Nullish(Absent, DefaultMaxOutput)
    /\ onOutput \in (IF mode = "text" THEN {FALSE} ELSE BOOLEAN)
    /\ Fresh

\* for (let i = 0; i < code.length; i++) { ... }: one character.
ScanStep ==
    /\ pc = "scan"
    /\ i < Len(code)
    /\ LET r == ScanChar(code, i, stack, bracketMap)
       IN  /\ i' = r.i
           /\ stack' = r.stack
           /\ bracketMap' = r.bracketMap
           /\ error' = r.error
           /\ pc' = After(r.error, "scan")
    /\ UNCHANGED <<args, tape, dp, ip, inputPos, output, steps, result, observed>>

\* The loop is over: throw on a pending "[", else enter the while loop.
ScanEnd ==
    /\ pc = "scan"
    /\ ~(i < Len(code))
    /\ error' = ScanDone(stack)
    /\ pc' = After(ScanDone(stack), "run")
    /\ UNCHANGED <<args, tape, dp, ip, inputPos, output, steps,
                   bracketMap, stack, i, result, observed>>

\* while (ip < code.length) { ... }: one turn.
Iterate ==
    /\ pc = "run"
    /\ LoopCond(ip, code)
    /\ steps' = steps + 1
    /\ LET r == LoopTurn(mode, code, input, bracketMap, maxSteps, maxOutput,
                         onOutput, Machine, steps)
       IN  /\ tape' = r.tape
           /\ dp' = r.dp
           /\ ip' = r.ip
           /\ inputPos' = r.inputPos
           /\ output' = r.output
           /\ observed' = r.observed
           /\ error' = r.error
           /\ pc' = After(r.error, "run")
    /\ UNCHANGED <<args, bracketMap, stack, i, result>>

\* The loop condition is false: return the output.
Return ==
    /\ pc = "run"
    /\ ~LoopCond(ip, code)
    /\ result' = ReturnValue(mode, output)
    /\ pc' = "returned"
    /\ UNCHANGED <<args, tape, dp, ip, inputPos, output, steps,
                   bracketMap, stack, i, error, observed>>

Next == ScanStep \/ ScanEnd \/ Iterate \/ Return

Spec == Init /\ [][Next]_vars

CatSpec == CatInit /\ [][Next]_vars

WrapSpec == WrapInit /\ [][Next]_vars

MulSpec == MulInit /\ [][Next]_vars

HelloSpec == HelloInit /\ [][Next]_vars

\* The call runs to its end: the loop is synchronous and nothing suspends it.
\* Calls on the shorter inputs, without the observer (the loop only notifies it).
LiveInit == Init /\ Len(input) < MaxInputLen /\ ~onOutput

LiveSpec == LiveInit /\ [][Next]_vars /\ WF_vars(Next)

----------------------------------------------------------------------------
(* Notions the properties are stated in *)

Ended == pc \in {"returned", "thrown"}

BracketError == error.kind \in {"UnmatchedOpen", "UnmatchedClose"}

FourErrors == {"UnmatchedOpen", "UnmatchedClose", "StepLimit", "OutputLimit"}

\* No instruction has taken effect.
Pristine ==
    /\ steps = 0 /\ tape = EmptyTape /\ dp = 0 /\ ip = 0 /\ inputPos = 0
    /\ output = <<>> /\ observed = <<>> /\ result = <<>>

InitMachine == [tape |-> EmptyTape, dp |-> 0, ip |-> 0, inputPos |-> 0,
                output |-> <<>>, observed |-> <<>>, error |-> NoError]

\* The loop would take another turn from s.
Running(s) == s.error = NoError /\ LoopCond(s.ip, code)

\* The machine after at most n turns of the loop run with no step limit.
RECURSIVE FreeAfter(_, _)
FreeAfter(n, s) ==
    IF n = 0 \/ ~Running(s) THEN s
    ELSE FreeAfter(n - 1, Exec(mode, code, input, bracketMap, maxOutput, onOutput, s))

\* Number of "[" minus number of "]" among the first k characters of c.
Depth(c, k) ==
    Cardinality({j \in 1..k : c[j] = "["}) - Cardinality({j \in 1..k : c[j] = "]"})

\* Positions (0-based) of a "]" met with no "[" pending.
StrayCloses(c) == {k \in 0..(Len(c) - 1) : c[k + 1] = "]" /\ Depth(c, k) = 0
                                           /\ \A j \in 0..k : Depth(c, j) >= 0}

\* Positions (0-based) of a "[" that no later "]" closes.
UnclosedOpens(c) == {k \in 0..(Len(c) - 1) : c[k + 1] = "["
                         /\ \A j \in (k + 1)..Len(c) : Depth(c, j) >= Depth(c, k + 1)}

Balanced(c) == Depth(c, Len(c)) = 0 /\ \A k \in 0..Len(c) : Depth(c, k) >= 0

Max(S) == CHOOSE x \in S : \A y \in S : y <= x

Min(S) == CHOOSE x \in S : \A y \in S : x <= y

----------------------------------------------------------------------------
(* C1: for a bracket-balanced program, the call ends in the step-limit    *)
(* error exactly when the same call with no step limit would still be in  *)
(* its loop after maxSteps turns; the error carries maxSteps and nothing   *)
(* is returned.                                                           *)
C1_StepLimitExact ==
    (Ended /\ ~BracketError) =>
        /\ (error.kind = "StepLimit") <=> Running(FreeAfter(maxSteps, InitMachine))
        /\ error.kind = "StepLimit" => (pc = "thrown" /\ result = <<>> /\ error.arg = maxSteps)

C1_Witness ==
    /\ pc = "thrown" /\ error.kind = "StepLimit"
    /\ Has(code, "]") /\ output # <<>> /\ maxSteps > 0

(* C2: every call ends, by returning or by throwing one of the four       *)
(* errors; the step counter never passes maxSteps + 1, and the turn on    *)
(* which it passes maxSteps changes nothing of the machine.               *)
C2_EndsWithinLimit ==
    /\ <>Ended
    /\ [](steps <= maxSteps + 1)
    /\ [](pc = "thrown" => error.kind \in FourErrors)
    /\ [][steps' > maxSteps =>
             UNCHANGED <<tape, dp, ip, inputPos, output, observed, result>>]_vars

C2_Witness ==
    /\ pc = "thrown" /\ error.kind = "StepLimit" /\ steps = maxSteps + 1
    /\ code = <<"+", "[", "+", "]">> /\ Cell(tape, 0) > 1

(* C3: a program with an unmatched bracket never enters the loop: while    *)
(* it is scanned and when it is rejected no instruction has taken effect   *)
(* and the observer has not been called, and it is rejected with a bracket *)
(* error.                                                                  *)
C3_RejectedBeforeExecution ==
    /\ ~Balanced(code) => (pc \in {"scan", "thrown"} /\ Pristine)
    /\ (~Balanced(code) /\ pc = "thrown") => BracketError
    /\ BracketError => (pc = "thrown" /\ ~Balanced(code) /\ Pristine)

C3_Witness ==
    /\ pc = "thrown" /\ BracketError /\ mode = "bytes" /\ onOutput
    /\ Len(code) > 1 /\ code[1] = "." /\ error.arg > 0

(* C4: if the program has a "]" met with no "[" pending, the call throws   *)
(* the unmatched-closing error at the first such position, at the moment   *)
(* the scan reaches it, whatever "[" the program leaves unclosed.          *)
C4_FirstStrayClose ==
    StrayCloses(code) # {} =>
        /\ pc \in {"scan", "thrown"}
        /\ i <= Min(StrayCloses(code))
        /\ pc = "thrown" => (error = UnmatchedClose(Min(StrayCloses(code)))
                             /\ i = Min(StrayCloses(code)))
        /\ (pc = "scan" /\ i = Min(StrayCloses(code))) => Len(stack) = 0

C4_Witness ==
    /\ pc = "thrown" /\ error.kind = "UnmatchedClose"
    /\ \E k \in 1..Len(code) : k > error.arg + 1 /\ code[k] = "["

(* C5: if the program has no stray "]" and leaves a "[" unclosed, the call *)
(* throws the unmatched-opening error after the whole scan, at the         *)
(* position of the last (innermost) unclosed "[".                          *)
C5_InnermostUnclosedOpen ==
    (StrayCloses(code) = {} /\ UnclosedOpens(code) # {}) =>
        /\ pc \in {"scan", "thrown"}
        /\ pc = "thrown" => (error = UnmatchedOpen(Max(UnclosedOpens(code)))
                             /\ i = Len(code)
                             /\ stack[Len(stack)] = Max(UnclosedOpens(code)))

C5_Witness ==
    /\ pc = "thrown" /\ error.kind = "UnmatchedOpen"
    /\ Cardinality(UnclosedOpens(code)) > 1
    /\ error.arg # Min(UnclosedOpens(code))

\* The loop is about to execute the instruction ch: the step check will pass.
Executing(ch) ==
    /\ pc = "run" /\ LoopCond(ip, code) /\ ~StepCheck(steps, maxSteps)
    /\ code[ip + 1] = ch

(* C6: in byte mode the accumulator never holds more than maxOutput       *)
(* bytes; a "." executed with the accumulator at maxOutput throws the     *)
(* output-limit error, appends nothing and does not call the observer;    *)
(* the error is thrown only there, so a program emitting exactly          *)
(* maxOutput bytes is not failed by it.                                   *)
C6_OutputCap ==
    /\ [](mode = "bytes" => Len(output) <= maxOutput /\ Len(result) <= maxOutput)
    /\ [](error.kind = "OutputLimit" =>
             /\ mode = "bytes" /\ pc = "thrown" /\ error.arg = maxOutput
             /\ Len(output) = maxOutput /\ LoopCond(ip, code) /\ code[ip + 1] = ".")
    /\ [][(mode = "bytes" /\ Executing(".") /\ Len(output) = maxOutput) =>
             /\ pc' = "thrown" /\ error' = OutputLimit(maxOutput)
             /\ output' = output /\ observed' = observed]_vars
    /\ [][(mode = "bytes" /\ Executing(".") /\ Len(output) < maxOutput) =>
             /\ pc' = "run" /\ output' = Append(output, Cell(tape, dp))]_vars

C6_Witness ==
    /\ pc = "thrown" /\ error.kind = "OutputLimit" /\ onOutput
    /\ maxOutput > 0 /\ Len(output) = maxOutput /\ observed = output

(* C7: in byte mode with an observer, the values the observer has         *)
(* received are, after every step, exactly the accumulator, in order; on  *)
(* return they are the returned bytes.  Without an observer none is       *)
(* recorded.                                                              *)
C7_ObserverMirrorsOutput ==
    /\ (mode = "bytes" /\ onOutput) =>
           (observed = output /\ (pc = "returned" => observed = result))
    /\ ~onOutput => observed = <<>>

C7_Witness ==
    /\ pc = "returned" /\ mode = "bytes" /\ onOutput
    /\ Len(result) > 1 /\ result[1] # result[2] /\ observed = result

(* C8 as stated: a failed run has delivered none of its bytes to the      *)
(* caller, neither as a return value nor through the observer.            *)
C8_FailedRunDeliversNothing ==
    pc = "thrown" => (result = <<>> /\ observed = <<>>)

(* C8 amended: each of the four errors ends the call: nothing changes     *)
(* after it and nothing is returned; the only bytes the caller has are    *)
(* those the observer, if configured, received before the failure.        *)
C8_ErrorsTerminal ==
    /\ [](error # NoError <=> pc = "thrown")
    /\ [](pc = "thrown" =>
             /\ error.kind \in FourErrors /\ result = <<>>
             /\ observed = (IF onOutput THEN output ELSE <<>>))
    /\ [][pc = "thrown" => UNCHANGED vars]_vars

C8_Witness ==
    /\ pc = "thrown" /\ error.kind = "StepLimit" /\ onOutput
    /\ observed # <<>> /\ result = <<>>

(* C9 as stated: echo returns any single character, cat any input.        *)
C9_EchoAnyInput ==
    pc = "returned" =>
        /\ (code = EchoProgram /\ Len(input) = 1) => result = input
        /\ code = CatProgram => result = input

\* Every code unit of s lies in lo..255.
UnitsWithin(s, lo) == \A k \in 1..Len(s) : s[k] \in lo..(CellMod - 1)

(* C9 amended: echo returns a single character whose code unit is at most *)
(* 255; cat returns an input whose code units all lie in 1..255.  Both    *)
(* calls return.                                                          *)
C9_EchoBytes ==
    Ended =>
        /\ pc = "returned"
        /\ (code = EchoProgram /\ Len(input) = 1 /\ UnitsWithin(input, 0)) => result = input
        /\ (code = CatProgram /\ UnitsWithin(input, 1)) => result = input

C9_Witness ==
    /\ pc = "returned" /\ code = CatProgram /\ mode = "text"
    /\ Len(input) > 1 /\ input[1] # input[2] /\ result = input

(* C10 as stated: a "," below the end of the input stores the character   *)
(* at the cursor in the current cell.                                     *)
C10_StoresTheCharacter ==
    [][(Executing(",") /\ inputPos < Len(input)) =>
           Cell(tape', dp) = input[inputPos + 1]]_vars

(* C10 amended: the cursor starts at 0, never decreases, never exceeds    *)
(* the input length; a "," below the end stores the low 8 bits of the     *)
(* code unit at the cursor and advances the cursor by 1; a "," at the end *)
(* stores 0 and leaves the cursor, every time.                            *)
C10_InputCursor ==
    /\ [](inputPos \in 0..Len(input))
    /\ [](pc = "scan" => inputPos = 0)
    /\ [][inputPos' >= inputPos]_vars
    /\ [][Executing(",") =>
             IF inputPos < Len(input)
             THEN /\ Cell(tape', dp) = input[inputPos + 1] % CellMod
                  /\ inputPos' = inputPos + 1
             ELSE /\ Cell(tape', dp) = 0
                  /\ inputPos' = inputPos]_vars
    /\ [][~Executing(",") => inputPos' = inputPos]_vars

C10_Witness ==
    /\ pc = "run" /\ Len(input) > 0 /\ inputPos = Len(input)
    /\ ip > 1 /\ code[ip] = "," /\ code[ip - 1] = "," /\ Cell(tape, dp) = 0

\* The cell's value when the first instruction, a ",", has been executed.
StartValue == IF Len(input) > 0 THEN input[1] ELSE 0

(* C11: every cell holds a value in 0..255; "+" on 255 gives 0 and on any *)
(* other value one more; "-" on 0 gives 255 and on any other value one    *)
(* less; after k "+" (or "-") the cell is k above (below) its starting    *)
(* value modulo 256, so after 256 of them it holds the starting value     *)
(* again, for each of the 256 starting values.                            *)
C11_CellWraps ==
    /\ [](\A p \in DOMAIN tape : tape[p] \in 0..255)
    /\ [][Executing("+") =>
             Cell(tape', dp) = (IF Cell(tape, dp) = 255 THEN 0 ELSE Cell(tape, dp) + 1)]_vars
    /\ [][Executing("-") =>
             Cell(tape', dp) = (IF Cell(tape, dp) = 0 THEN 255 ELSE Cell(tape, dp) - 1)]_vars
    /\ []((pc = "run" /\ ip = 257) => Cell(tape, dp) = StartValue)
    /\ []((pc = "run" /\ ip = 129) =>
             Cell(tape, dp) = (IF StartValue < 128 THEN StartValue + 128
                               ELSE StartValue - 128))

C11_Witness ==
    /\ pc = "returned" /\ steps = 257 /\ code[2] = "+"
    /\ Cell(tape, dp) = 200 /\ StartValue = 200

\* Number of ">" minus number of "<" among the first k characters of c.
NetMoves(c, k) ==
    Cardinality({j \in 1..k : c[j] = ">"}) - Cardinality({j \in 1..k : c[j] = "<"})

(* C12: the data pointer stays in 0..29999; "<" at 0 gives 29999 and      *)
(* elsewhere one less; ">" at 29999 gives 0 and elsewhere one more; in a  *)
(* program without brackets the pointer is the number of ">" executed     *)
(* minus the number of "<" executed, modulo 30000, so a "<" and a ">" in  *)
(* either order restore it.                                               *)
C12_PointerWraps ==
    /\ [](dp \in 0..29999)
    /\ [][Executing("<") => dp' = (IF dp = 0 THEN 29999 ELSE dp - 1)]_vars
    /\ [][Executing(">") => dp' = (IF dp = 29999 THEN 0 ELSE dp + 1)]_vars
    /\ []((pc = "run" /\ ~Has(code, "[") /\ ~Has(code, "]")) =>
             dp = (NetMoves(code, ip) + 30000) % 30000)
    /\ []((pc = "run" /\ ~Has(code, "[") /\ ~Has(code, "]") /\ ip > 1
           /\ {code[ip - 1], code[ip]} = {"<", ">"}) =>
             dp = (NetMoves(code, ip - 2) + 30000) % 30000)

C12_Witness ==
    /\ pc = "run" /\ code = <<"<", "<", ">", ">">> /\ ip = 3 /\ dp = 29999

\* The eight instructions; any other character is inert.
Instructions == {">", "<", "+", "-", ".", ",", "[", "]"}

Inert(c) == \A k \in 1..Len(c) : c[k] \notin Instructions

\* The loop is about to execute an inert character: the step check will pass.
ExecutingInert ==
    /\ pc = "run" /\ LoopCond(ip, code) /\ ~StepCheck(steps, maxSteps)
    /\ code[ip + 1] \notin Instructions

(* C13: an inert character changes nothing but the instruction pointer,   *)
(* which it advances by 1, and the step counter, which it advances by 1;  *)
(* a program of inert characters only takes one step per character,       *)
(* fails with the step-limit error when it is longer than maxSteps, and   *)
(* otherwise returns the empty output.                                    *)
C13_InertCharacters ==
    /\ [][ExecutingInert =>
             /\ UNCHANGED <<tape, dp, inputPos, output, observed, result, error>>
             /\ ip' = ip + 1 /\ steps' = steps + 1 /\ pc' = "run"]_vars
    /\ [](Inert(code) =>
             /\ output = <<>> /\ result = <<>> /\ tape = EmptyTape /\ dp = 0
             /\ pc \in {"run", "returned"} => steps = ip
             /\ pc = "returned" => (steps = Len(code) /\ Len(code) <= maxSteps)
             /\ pc = "thrown" => (error = StepLimit(maxSteps) /\ Len(code) > maxSteps
                                  /\ steps = maxSteps + 1))

C13_Witness ==
    /\ pc = "returned" /\ code = <<"x", "x">> /\ steps = 2 /\ maxSteps = 2
    /\ result = <<>>

\* The factors of a multiplication program: the "+" before the "[", and
\* the "+" of the loop body.
FactorN(c) == Min({k \in 1..Len(c) : c[k] = "["}) - 1

FactorM(c) == Len(c) - FactorN(c) - 7

(* C14: the program of n "+", "[->", m "+", "<]>." returns exactly one    *)
(* byte, (n * m) mod 256; its loop body runs n times (m + 4 steps each),  *)
(* so with n = 0 the body is never run and the call takes 3 steps.        *)
C14_LoopMultiplies ==
    /\ Ended => pc = "returned"
    /\ pc = "returned" =>
           /\ result = <<(FactorN(code) * FactorM(code)) % 256>>
           /\ steps = FactorN(code) + 1 + FactorN(code) * (FactorM(code) + 4) + 2
           /\ Cell(tape, 0) = 0
    /\ (pc = "returned" /\ FactorN(code) = 0) => (steps = 3 /\ tape = EmptyTape)

C14_Witness ==
    /\ pc = "returned" /\ code = MulProgram(2, 5) /\ result = <<10>>

(* C15: the 106-character Hello-World program, with empty input and the  *)
(* default limits, returns in both modes, and returns the 13 code units   *)
(* (bytes) of "Hello World!\n"; what it has output so far is always a     *)
(* prefix of them.                                                        *)
C15_HelloWorld ==
    /\ Len(code) = 106
    /\ Ended => (pc = "returned" /\ result = HelloOutput /\ Len(result) = 13)
    /\ Len(output) <= 13 /\ output = SubSeq(HelloOutput, 1, Len(output))

C15_Witness ==
    /\ pc = "returned" /\ mode = "bytes" /\ result = HelloOutput /\ steps > 106

\* The "]" that closes the "[" at position k (0-based), by counting depth.
MatchClose(c, k) ==
    Min({j \in (k + 1)..(Len(c) - 1) : c[j + 1] = "]" /\ Depth(c, j + 1) = Depth(c, k)})

\* No instruction effect other than on the instruction pointer.
OnlyIpMoves ==
    /\ pc' = "run" /\ error' = NoError
    /\ UNCHANGED <<tape, dp, inputPos, output, observed>>

(* C16: "[" executed at i on a zero cell sets the instruction pointer one *)
(* past the matching "]", and on a non-zero cell to i + 1; "]" executed   *)
(* at j on a zero cell sets it to j + 1; in the three cases the tape, the *)
(* data pointer, the input cursor and the output stay as they were.       *)
C16_BracketSteps ==
    [][ /\ (Executing("[") /\ Cell(tape, dp) = 0) =>
               (ip' = MatchClose(code, ip) + 1 /\ OnlyIpMoves)
        /\ (Executing("[") /\ Cell(tape, dp) # 0) => (ip' = ip + 1 /\ OnlyIpMoves)
        /\ (Executing("]") /\ Cell(tape, dp) = 0) => (ip' = ip + 1 /\ OnlyIpMoves)
      ]_vars

\* The outer "[" of "[[]]" has skipped the inner pair and its own "]".
C16_Witness ==
    /\ code = <<"[", "[", "]", "]">> /\ pc = "run" /\ steps = 1 /\ ip = 4
    /\ tape = EmptyTape /\ output = <<>>

\* The loop is about to execute a bracket whose jump is taken.
TakenJump ==
    \/ Executing("[") /\ Cell(tape, dp) = 0
    \/ Executing("]") /\ Cell(tape, dp) # 0

(* C17 as stated: after a taken jump control is exactly on the partner    *)
(* bracket, which is the next instruction executed.                       *)
C17_LandsOnTarget ==
    [][TakenJump => (ip' = MapGet(bracketMap, ip) /\ code[ip' + 1] \in {"[", "]"})]_vars

(* C17: after a taken jump the instruction pointer is one past the        *)
(* partner bracket: the partner is not executed; after "]" on a non-zero  *)
(* cell the next instruction is the first of the loop body, and after     *)
(* "[" on a zero cell control is past the loop.                           *)
C17_LandsPastTarget ==
    [][TakenJump =>
          /\ ip' = MapGet(bracketMap, ip) + 1
          /\ code[MapGet(bracketMap, ip) + 1] = (IF code[ip + 1] = "[" THEN "]" ELSE "[")
          /\ code[ip + 1] = "]" => (ip' <= ip /\ Depth(code, ip') = Depth(code, ip))
          /\ code[ip + 1] = "[" => ip' > ip + 1
      ]_vars

\* "]" of "+[+]" has jumped back: control is on the body's "+", past the "[".
C17_Witness ==
    /\ code = <<"+", "[", "+", "]">> /\ pc = "run" /\ steps = 4 /\ ip = 2
    /\ Cell(tape, 0) = 2

\* The pre-pass has ended without an error.
Accepted == pc \in {"run", "returned"} \/ (pc = "thrown" /\ ~BracketError)

\* Positions (0-based) of the brackets of c.
BracketPositions(c) == {k \in 0..(Len(c) - 1) : c[k + 1] \in {"[", "]"}}

OpenPositions(c) == {k \in 0..(Len(c) - 1) : c[k + 1] = "["}

(* C18: once the pre-pass has accepted the program, the jump table has an *)
(* entry exactly at the bracket positions; it is symmetric; each "[" maps *)
(* to a later "]"; and two pairs are disjoint or one inside the other.    *)
C18_JumpTable ==
    Accepted =>
        /\ DOMAIN bracketMap = BracketPositions(code)
        /\ \A k \in DOMAIN bracketMap :
               /\ bracketMap[k] \in DOMAIN bracketMap
               /\ bracketMap[bracketMap[k]] = k
        /\ \A k \in OpenPositions(code) :
               bracketMap[k] > k /\ code[bracketMap[k] + 1] = "]"
        /\ \A k, l \in OpenPositions(code) :
               k < l => (bracketMap[k] < l \/ bracketMap[l] < bracketMap[k])
        /\ Cardinality(OpenPositions(code)) * 2 = Cardinality(BracketPositions(code))

\* Two nested pairs, both in the table.
C18_Witness ==
    /\ pc = "run" /\ code = <<"[", "[", "]", "]">>
    /\ bracketMap = (0 :> 3) @@ (1 :> 2) @@ (2 :> 1) @@ (3 :> 0)

\* The loop is about to take a turn.
Turning == pc = "run" /\ LoopCond(ip, code)

(* C19: every turn of the loop increments the step counter and checks it  *)
(* before the instruction acts: a turn entered with steps >= maxSteps     *)
(* throws the step-limit error and leaves the tape, the data pointer, the *)
(* instruction pointer, the input cursor, the output and what the         *)
(* observer received as they were, whatever the instruction, also a "."   *)
(* with the output already at maxOutput; a turn entered below the limit   *)
(* never throws the step-limit error.                                     *)
C19_StepCheckFirst ==
    [][ /\ Turning => steps' = steps + 1
        /\ (Turning /\ steps >= maxSteps) =>
               /\ pc' = "thrown" /\ error' = StepLimit(maxSteps)
               /\ UNCHANGED <<tape, dp, ip, inputPos, output, observed>>
        /\ (Turning /\ steps < maxSteps) => error' # StepLimit(maxSteps)
      ]_vars

\* The step limit met at a "." in byte mode with the output at its own limit.
C19_Witness ==
    /\ pc = "thrown" /\ error = StepLimit(maxSteps)
    /\ mode = "bytes" /\ onOutput /\ code[ip + 1] = "."
    /\ Len(output) = maxOutput /\ maxOutput > 0 /\ observed = output

\* The machine after the turns k + 1 .. n of the loop of entry point md, from
\* machine s after k turns; a throw or a false loop condition ends it.
RECURSIVE Turns(_, _, _, _, _, _)
Turns(md, maxOut, obs, s, k, n) ==
    IF k = n \/ ~Running(s) THEN s
    ELSE Turns(md, maxOut, obs,
               LoopTurn(md, code, input, bracketMap, maxSteps, maxOut, obs, s, k),
               k + 1, n)

\* brainfuck after n turns; brainfuck.bytes after n turns with the default
\* maxOutput and no observer.
TextRun(n) == Turns("text", maxOutput, FALSE, InitMachine, 0, n)

BytesRun(n) == Turns("bytes", DefaultMaxOutput, FALSE, InitMachine, 0, n)

====
